---- MODULE Spec2Model ----
(***************************************************************************)
(* The MACD poll loop of src/main.rs: the per-symbol price history kept    *)
(* across poll rounds, the EMA / MACD / crossover functions, and the       *)
(* handling of one batch's price response.                                 *)
(*                                                                         *)
(* Prices are f64 in the program.  Here they are fixed-point integers      *)
(* (one unit = one smallest price step of the feed); every division of the *)
(* EMA recurrence rounds down to a unit.                                   *)
(***************************************************************************)
EXTENDS Integers, Sequences, FiniteSets, TLC

(***************************************************************************)
(* Program constants.                                                      *)
(***************************************************************************)
MAX_COINS_PER_BATCH == 200
FastPeriod == 12
SlowPeriod == 26
SignalPeriod == 9
MacdMinLen == 12
SignalMinLen == 26
MaxHistory == 100

(***************************************************************************)
(* Bounds of the model.                                                    *)
(***************************************************************************)
\* Number of coins left by the network filter: one more than a full batch,
\* so that the loop has two batches.
NumCoins == 201
\* Number of price fetches the loop performs before the model stops it.
MaxPolls == 104
\* Number of fetches that may fail or come back with a listed coin missing.
MaxFaults == 1
\* Longest argument sequence of a direct call of an indicator function.
MaxLen == 3
\* Largest value in the argument sequences of a direct call.
MaxVal == 1

VARIABLES
    price_history,  \* main: HashMap<String, Vec<f64>>, symbol -> prices
    batchIdx,       \* position of `for batch in coin_batches.iter()`
    polls,          \* number of fetch_price_data calls made so far
    faults,         \* number of those that failed or lacked a listed coin
    fetched,        \* outcome of the last fetch: "none", "err" or "ok"
    response,       \* prices of the last Ok fetch: coin id -> price
    evals,          \* console record of the last round, one per handled price
    trades,         \* execute_trade calls of the last round
    arrived,        \* symbol -> every price ever pushed to its history
    aborted,        \* the process panicked
    call            \* last direct call of an indicator function

vars == <<price_history, batchIdx, polls, faults, fetched, response, evals,
          trades, arrived, aborted, call>>

mainVars == <<price_history, batchIdx, polls, faults, fetched, response,
              evals, trades, arrived, aborted>>

(***************************************************************************)
(* The tracked coins.  Coins 1 and 2 are two tokens with different ids     *)
(* whose ticker symbol is the same; every other coin has its own symbol.   *)
(***************************************************************************)
Symbol(id) == IF id = 2 THEN 1 ELSE id

Coin(id) == [id |-> id, symbol |-> Symbol(id)]

Coins == [i \in 1..NumCoins |-> Coin(i)]

\* The coins the provider has a quote for; the others never appear in a
\* response.
Listed == {1, 2, NumCoins}

Min(a, b) == IF a < b THEN a ELSE b

\* split_into_batches: coins.chunks(MAX_COINS_PER_BATCH)
NumBatches == (Len(Coins) + MAX_COINS_PER_BATCH - 1) \div MAX_COINS_PER_BATCH

Batches ==
    [k \in 1..NumBatches |->
        SubSeq(Coins, (k - 1) * MAX_COINS_PER_BATCH + 1,
               Min(k * MAX_COINS_PER_BATCH, Len(Coins)))]

Batch(k) == Batches[k]

\* batch.iter().map(|coin| coin.id.as_str()).collect()
AllBatchIds == [k \in 1..NumBatches |-> {Batches[k][i].id : i \in 1..Len(Batches[k])}]

BatchIds(k) == AllBatchIds[k]

(***************************************************************************)
(* The provider's quote for a coin at fetch t: a market level that steps   *)
(* every 26 fetches; the two coins of one symbol are quoted alike.         *)
(***************************************************************************)
Level(t) ==
    LET phase == (t \div 26) % 4
    IN  CASE phase = 0 -> 1000
          [] phase = 1 -> 1400
          [] phase = 2 -> 1100
          [] OTHER     -> 900

Quote(id, t) == Level(t) + (IF id \in {1, 2} THEN 0 ELSE 37)

(***************************************************************************)
(* calculate_ema                                                           *)
(***************************************************************************)
\* prices[0] at line 95 is out of bounds on an empty slice
CalculateEmaPanics(prices) == Len(prices) = 0

\* multiplier = 2.0 / (period + 1.0);
\* (price - prev_ema) * multiplier + prev_ema
EmaStep(price, prev_ema, period) ==
    ((price - prev_ema) * 2) \div (period + 1) + prev_ema

\* for price in prices.iter().skip(1) { ema.push(...) }, over the indices
\* lo..hi with ema holding the lo - 1 values before them.  Every index is
\* visited once, in order; the range is halved, and the left half computed
\* before the right one is entered, only to keep the evaluation shallow.
RECURSIVE EmaRange(_, _, _, _, _)
EmaRange(prices, period, lo, hi, ema) ==
    IF lo > hi THEN ema
    ELSE IF lo = hi
    THEN Append(ema, EmaStep(prices[lo], ema[Len(ema)], period))
    ELSE LET mid  == (lo + hi) \div 2
             left == EmaRange(prices, period, lo, mid, ema)
         IN  IF Len(left) = Len(ema) + (mid - lo + 1)
             THEN EmaRange(prices, period, mid + 1, hi, left)
             ELSE left

\* ema.push(prices[0]);
EmaSeed(prices) == <<prices[1]>>

\* mutant: the loop skips two prices instead of one
CalculateEma_Skip2(prices, period) ==
    EmaRange(prices, period, 3, Len(prices), EmaSeed(prices))

CalculateEma(prices, period) ==
    EmaRange(prices, period, 2, Len(prices), EmaSeed(prices))

(***************************************************************************)
(* calculate_macd                                                          *)
(***************************************************************************)
Zip(a, b) == [i \in 1..Min(Len(a), Len(b)) |-> a[i] - b[i]]

MacdLine(prices) ==
    Zip(CalculateEma(prices, FastPeriod), CalculateEma(prices, SlowPeriod))

CalculateMacd(prices) ==
    LET macd_line == MacdLine(prices)
    IN  [macd |-> macd_line, signal |-> CalculateEma(macd_line, SignalPeriod)]

(***************************************************************************)
(* check_macd_signal                                                       *)
(***************************************************************************)
\* len() - 2 underflows, or the index is out of bounds
CheckMacdSignalPanics(macd_line, signal_line) ==
    Len(macd_line) < 2 \/ Len(signal_line) < 2

\* mutant: the previous pair must differ strictly
Crossover_Strict(macd_prev, macd_last, signal_prev, signal_last) ==
    IF macd_prev < signal_prev /\ macd_last > signal_last THEN "buy"
    ELSE IF macd_prev > signal_prev /\ macd_last < signal_last THEN "sell"
    ELSE "none"

Crossover(macd_prev, macd_last, signal_prev, signal_last) ==
    IF macd_prev <= signal_prev /\ macd_last > signal_last THEN "buy"
    ELSE IF macd_prev >= signal_prev /\ macd_last < signal_last THEN "sell"
    ELSE "none"

CheckMacdSignal(macd_line, signal_line) ==
    Crossover(macd_line[Len(macd_line) - 1], macd_line[Len(macd_line)],
              signal_line[Len(signal_line) - 1], signal_line[Len(signal_line)])

(***************************************************************************)
(* main: the handling of one price of a batch, lines 162-194               *)
(***************************************************************************)
\* price_history.entry(symbol).or_insert_with(Vec::new)
Entry(hist, sym) == IF sym \in DOMAIN hist THEN hist[sym] ELSE <<>>

Put(hist, sym, prices) ==
    [k \in DOMAIN hist \cup {sym} |-> IF k = sym THEN prices ELSE hist[k]]

\* mutant: the MACD is computed on any history
MacdGate_Any(len) == len >= 1

\* if prices.len() >= 12
MacdGate(len) == len >= MacdMinLen

\* mutant: the crossover is checked as soon as the MACD is computed
SignalGate_Early(len) == len >= MacdMinLen

\* if prices.len() >= 26
SignalGate(len) == len >= SignalMinLen

\* mutant: nothing is ever removed
Evict_Never(prices) == prices

\* mutant: the newest price is removed instead of the oldest
Evict_Newest(prices) ==
    IF Len(prices) > MaxHistory THEN SubSeq(prices, 1, Len(prices) - 1)
    ELSE prices

\* if prices.len() > 100 { prices.remove(0); }
Evict(prices) == IF Len(prices) > MaxHistory THEN Tail(prices) ELSE prices

\* st: the history map, the record of pushes, the round's console record and
\* trades, and whether the process has panicked.
HandlePrice(st, coin, price) ==
    LET sym       == coin.symbol
        prices    == Append(Entry(st.hist, sym), price)
        n         == Len(prices)
        evaluated == MacdGate(n)
        emaPanic  == evaluated /\ CalculateEmaPanics(prices)
        lines     == CalculateMacd(prices)
        checked   == evaluated /\ ~emaPanic /\ SignalGate(n)
        sigPanic  == checked /\ CheckMacdSignalPanics(lines.macd, lines.signal)
        action    == IF checked /\ ~sigPanic
                     THEN CheckMacdSignal(lines.macd, lines.signal)
                     ELSE "none"
        panic     == emaPanic \/ sigPanic
        eval      == [coin     |-> coin.id,
                      token    |-> sym,
                      price    |-> price,
                      len      |-> n,
                      macdIn   |-> IF evaluated THEN n ELSE 0,
                      checked  |-> checked,
                      lineLens |-> IF checked
                                   THEN <<Len(lines.macd), Len(lines.signal)>>
                                   ELSE <<0, 0>>,
                      action   |-> action]
    IN  [hist    |-> Put(st.hist, sym, IF panic THEN prices ELSE Evict(prices)),
         arrived |-> Put(st.arrived, sym, Append(Entry(st.arrived, sym), price)),
         evals   |-> Append(st.evals, eval),
         trades  |-> IF action = "none" THEN st.trades
                     ELSE Append(st.trades, [token |-> sym, action |-> action]),
         aborted |-> panic]

\* for coin in batch { if let Some(&price) = prices.get(&coin.id) { ... } }:
\* the coins of the batch that have a price, in the batch's order
WithPrice(batch, prices) ==
    LET has(coin) == coin.id \in DOMAIN prices IN SelectSeq(batch, has)

RECURSIVE ForEachCoin(_, _, _, _)
ForEachCoin(coins, prices, i, st) ==
    IF i > Len(coins) \/ st.aborted THEN st
    ELSE ForEachCoin(coins, prices, i + 1,
                     HandlePrice(st, coins[i], prices[coins[i].id]))

\* fetch_price_data: the prices of the requested ids that the body holds
FetchPriceData(coin_ids, body) ==
    [c \in {c \in coin_ids : c \in DOMAIN body} |-> body[c]]

\* the for loop over coin_batches inside `loop`
NextBatch(k) == IF k = NumBatches THEN 1 ELSE k + 1

MainInit ==
    /\ price_history = <<>>
    /\ batchIdx = 1
    /\ polls = 0
    /\ faults = 0
    /\ fetched = "none"
    /\ response = <<>>
    /\ evals = <<>>
    /\ trades = <<>>
    /\ arrived = <<>>
    /\ aborted = FALSE

\* no direct call is pending or made
NoCall == [fn |-> "none", a |-> <<>>, b |-> <<>>, period |-> 0,
           outcome |-> "none", out |-> <<>>, out2 |-> <<>>, action |-> "none"]

Init == MainInit /\ call = NoCall

\* Err(e) => debug!(...)
FetchErr ==
    /\ ~aborted
    /\ polls < MaxPolls
    /\ faults < MaxFaults
    /\ fetched' = "err"
    /\ response' = <<>>
    /\ evals' = <<>>
    /\ trades' = <<>>
    /\ polls' = polls + 1
    /\ faults' = faults + 1
    /\ batchIdx' = NextBatch(batchIdx)
    /\ UNCHANGED <<price_history, arrived, aborted, call>>

\* Ok(prices) => for coin in batch { ... }
FetchOk ==
    /\ ~aborted
    /\ polls < MaxPolls
    /\ \E S \in SUBSET (Listed \cap BatchIds(batchIdx)) :
         LET complete == S = Listed \cap BatchIds(batchIdx)
             body     == [c \in S |-> Quote(c, polls + 1)]
             prices   == FetchPriceData(BatchIds(batchIdx), body)
             st       == ForEachCoin(WithPrice(Batch(batchIdx), prices), prices, 1,
                                     [hist    |-> price_history,
                                      arrived |-> arrived,
                                      evals   |-> <<>>,
                                      trades  |-> <<>>,
                                      aborted |-> FALSE])
         IN  /\ complete \/ faults < MaxFaults
             /\ fetched' = "ok"
             /\ response' = prices
             /\ price_history' = st.hist
             /\ arrived' = st.arrived
             /\ evals' = st.evals
             /\ trades' = st.trades
             /\ aborted' = st.aborted
             /\ faults' = IF complete THEN faults ELSE faults + 1
    /\ polls' = polls + 1
    /\ batchIdx' = NextBatch(batchIdx)
    /\ UNCHANGED call

Next == FetchErr \/ FetchOk

Spec == Init /\ [][Next]_vars

(***************************************************************************)
(* Direct calls of the three indicator functions, on arguments drawn from  *)
(* every sequence of at most MaxLen values in 0..MaxVal.                   *)
(***************************************************************************)
ArgSeqs == UNION {[1..n -> 0..MaxVal] : n \in 0..MaxLen}

Periods == {SignalPeriod, FastPeriod, SlowPeriod}

FnInit ==
    /\ MainInit
    /\ \E a \in ArgSeqs, b \in ArgSeqs, period \in Periods :
         call = [NoCall EXCEPT !.a = a, !.b = b, !.period = period]

CallEma ==
    /\ call.fn = "none"
    /\ call' = IF CalculateEmaPanics(call.a)
               THEN [call EXCEPT !.fn = "calculate_ema", !.outcome = "panic"]
               ELSE [call EXCEPT !.fn = "calculate_ema", !.outcome = "returned",
                                 !.out = CalculateEma(call.a, call.period)]
    /\ UNCHANGED mainVars

CallMacd ==
    /\ call.fn = "none"
    /\ call' = IF CalculateEmaPanics(call.a)
               THEN [call EXCEPT !.fn = "calculate_macd", !.outcome = "panic"]
               ELSE [call EXCEPT !.fn = "calculate_macd", !.outcome = "returned",
                                 !.out = CalculateMacd(call.a).macd,
                                 !.out2 = CalculateMacd(call.a).signal]
    /\ UNCHANGED mainVars

CallSignal ==
    /\ call.fn = "none"
    /\ call' = IF CheckMacdSignalPanics(call.a, call.b)
               THEN [call EXCEPT !.fn = "check_macd_signal", !.outcome = "panic"]
               ELSE [call EXCEPT !.fn = "check_macd_signal", !.outcome = "returned",
                                 !.action = CheckMacdSignal(call.a, call.b)]
    /\ UNCHANGED mainVars

FnNext == CallEma \/ CallMacd \/ CallSignal

FnSpec == FnInit /\ [][FnNext]_vars

(***************************************************************************)
(* Properties.                                                             *)
(***************************************************************************)
\* the last n elements of a sequence
LastN(seq, n) == SubSeq(seq, Len(seq) - n + 1, Len(seq))

\* the tracked coins
CoinIds == 1..NumCoins

\* C1, as stated: a handled price that leaves the history shorter than
\* slow + signalPeriod = 35 produces no buy or sell.
C1_NoEventBelowMinEval ==
    \A i \in DOMAIN evals :
        evals[i].len < SlowPeriod + SignalPeriod => evals[i].action = "none"

\* C1, amended: a handled price that leaves the history (after the push)
\* shorter than 26 produces no buy or sell, and a round in which every handled
\* price does so calls execute_trade not at all.
C1_NoEventBelowSlow ==
    /\ \A i \in DOMAIN evals :
          evals[i].len < SlowPeriod => evals[i].action = "none"
    /\ (\A i \in DOMAIN evals : evals[i].len < SlowPeriod) => trades = <<>>

\* C1 witness: a price was handled at a length in 12..25 where the two lines,
\* computed on the history, do cross, and yet nothing was emitted.
C1_Witness ==
    \E i \in DOMAIN evals :
        /\ evals[i].len < SlowPeriod
        /\ evals[i].macdIn = evals[i].len
        /\ evals[i].action = "none"
        /\ Len(price_history[evals[i].token]) = evals[i].len
        /\ LET lines == CalculateMacd(price_history[evals[i].token])
           IN  CheckMacdSignal(lines.macd, lines.signal) = "buy"

C3_SlidingWindow ==
    /\ DOMAIN price_history = DOMAIN arrived
    /\ \A sym \in DOMAIN price_history :
          price_history[sym] =
              LastN(arrived[sym], Min(Len(arrived[sym]), MaxHistory))

\* C3 witness: 101 prices were pushed to a history, it holds 100 of them and
\* its oldest one is the 2nd pushed; the evicted window crosses a level step.
C3_Witness ==
    \E sym \in DOMAIN price_history :
        /\ Len(arrived[sym]) = MaxHistory + 1
        /\ Len(price_history[sym]) = MaxHistory
        /\ price_history[sym] = Tail(arrived[sym])
        /\ price_history[sym] # SubSeq(arrived[sym], 1, MaxHistory)

\* C4: on lines of at least two values the result is decided by the last two
\* values of each line alone: buy exactly when macdPrev <= sigPrev and
\* macdLast > sigLast, otherwise sell exactly when macdPrev >= sigPrev and
\* macdLast < sigLast, otherwise none; equal last values never give a signal.
C4_Crossover ==
    (call.fn = "check_macd_signal" /\ call.outcome = "returned") =>
        LET macdPrev == call.a[Len(call.a) - 1]
            macdLast == call.a[Len(call.a)]
            sigPrev  == call.b[Len(call.b) - 1]
            sigLast  == call.b[Len(call.b)]
            up       == macdPrev <= sigPrev /\ macdLast > sigLast
            down     == macdPrev >= sigPrev /\ macdLast < sigLast
        IN  /\ call.action = "buy" <=> up
            /\ call.action = "sell" <=> (~up /\ down)
            /\ call.action = "none" <=> (~up /\ ~down)
            /\ macdLast = sigLast => call.action = "none"
            /\ (macdPrev = sigPrev /\ macdLast > sigLast) => call.action = "buy"
            /\ (macdPrev = sigPrev /\ macdLast < sigLast) => call.action = "sell"
            /\ ~(up /\ down)
            /\ call.action =
                 CheckMacdSignal(LastN(call.a, 2), LastN(call.b, 2))

\* C4 witness: a buy returned on lines of three values whose previous values
\* are equal.
C4_Witness ==
    /\ call.fn = "check_macd_signal"
    /\ call.outcome = "returned"
    /\ Len(call.a) = 3
    /\ Len(call.b) = 3
    /\ call.a[2] = call.b[2]
    /\ call.action = "buy"

\* C5, as stated: calculate_ema on an empty sequence hands an InvalidInput
\* error back to its caller and does not abort.
C5_EmptyIsInvalidInput ==
    (call.fn = "calculate_ema" /\ call.a = <<>>) =>
        call.outcome = "InvalidInput"

\* C6, as stated: a round that handles a price for coin A and none for another
\* tracked coin B leaves the history B is tracked under as it was.
C6_OtherHistoriesUntouched ==
    [][\A A \in CoinIds, B \in CoinIds :
          (A # B /\ A \in DOMAIN response' /\ B \notin DOMAIN response') =>
              Entry(price_history', Symbol(B)) = Entry(price_history, Symbol(B))
      ]_vars

\* C7: on a non-empty sequence calculate_ema returns, with one value per
\* input and the first input as first value, and calculate_macd returns two
\* lines as long as the input.
C7_LengthPreserved ==
    /\ (call.fn \in {"calculate_ema", "calculate_macd"} /\ call.a # <<>>) =>
          call.outcome = "returned"
    /\ (call.fn = "calculate_ema" /\ call.outcome = "returned") =>
          /\ Len(call.out) = Len(call.a)
          /\ call.out[1] = call.a[1]
    /\ (call.fn = "calculate_macd" /\ call.outcome = "returned") =>
          /\ Len(call.out) = Len(call.a)
          /\ Len(call.out2) = Len(call.a)

\* C7 witness: calculate_macd returned two lines of three values.
C7_Witness ==
    /\ call.fn = "calculate_macd"
    /\ call.outcome = "returned"
    /\ Len(call.a) = MaxLen
    /\ Len(call.out) = MaxLen
    /\ Len(call.out2) = MaxLen

\* C8, as stated: the sequence handed to calculate_macd never holds more than
\* 100 prices.
C8_EvaluatedAtMostCapacity ==
    \A i \in DOMAIN evals : evals[i].macdIn <= MaxHistory

\* C9: the poll loop never panics: calculate_macd, and with it calculate_ema,
\* is called only on a history of at least 12 prices, and check_macd_signal
\* only on a history of at least 26 and on two lines of one length, at least 2.
C9_NoIndexPanic ==
    /\ ~aborted
    /\ \A i \in DOMAIN evals :
          /\ evals[i].macdIn # 0 =>
                (evals[i].macdIn = evals[i].len /\ evals[i].len >= MacdMinLen)
          /\ evals[i].checked =>
                /\ evals[i].len >= SignalMinLen
                /\ evals[i].lineLens[1] = evals[i].lineLens[2]
                /\ evals[i].lineLens[1] >= 2

\* C9 witness: check_macd_signal was called, on two lines as long as the
\* history.
C9_Witness ==
    \E i \in DOMAIN evals :
        /\ evals[i].checked
        /\ evals[i].lineLens = <<evals[i].len, evals[i].len>>

\* C10, as stated: a failed fetch changes no history and emits nothing; after
\* a successful one, a coin of the batch without a price has its history
\* unchanged and no buy or sell under its symbol; and the loop goes on to the
\* next batch.
C10_NoPriceNoEffect ==
    [][/\ fetched' = "err" =>
             (price_history' = price_history /\ trades' = <<>>)
       /\ fetched' = "ok" =>
             \A c \in BatchIds(batchIdx) :
                 c \notin DOMAIN response' =>
                     /\ Entry(price_history', Symbol(c))
                            = Entry(price_history, Symbol(c))
                     /\ \A i \in DOMAIN trades' : trades'[i].token # Symbol(c)
       /\ batchIdx' = NextBatch(batchIdx)
       /\ ~aborted'
      ]_vars

====
